---- MODULE Spec2Model ----
(***************************************************************************)
(* A model of vj4's request-handling core (vj4/view/base.py): the cookie   *)
(* backed session layer of ViewBase (update_session, delete_session,       *)
(* clear_cookies, csrf_token), the permission resolver (has_perm,          *)
(* has_priv and the check_* guards), the decorators, and the lifecycle of  *)
(* View.__iter__ with its translation of user-facing errors.               *)
(*                                                                         *)
(* Python values are modelled as follows.  None is the string "None".      *)
(* A dict is a function whose domain is a set of strings (the empty dict   *)
(* is << >>).  A cookie value is None (cookie absent), "" or a non-empty   *)
(* string.  Token ids are the strings of SidNames, handed out in order.    *)
(***************************************************************************)
EXTENDS Integers, Sequences, FiniteSets, TLC

\* ------------------------------------------------------------------ bounds

\* How many tokens token.add may create in one behaviour.
MaxTokens == 2

\* ------------------------------------------------------- values and helpers

None == "None"

EmptyDict == << >>

\* Python truthiness of an Optional[str] (a cookie value).
Truthy(v) == v # None /\ v # ""

\* {**a, **b}
Merge(a, b) ==
  [k \in (DOMAIN a) \cup (DOMAIN b) |-> IF k \in DOMAIN b THEN b[k] ELSE a[k]]

\* dict.get(key, default)
Get(d, key, default) == IF key \in DOMAIN d THEN d[key] ELSE default

\* The token ids token.add hands out, in order; never reused.
SidNames == <<"s1", "s2", "s3", "s4", "s5", "s6">>

Sids == {SidNames[i] : i \in 1..MaxTokens}

TYPE_SAVED_SESSION == "saved"

TYPE_UNSAVED_SESSION == "unsaved"

saved_session_expire_seconds == "saved_session_expire_seconds"

unsaved_session_expire_seconds == "unsaved_session_expire_seconds"

\* utils.formatdate(0, usegmt=True)
EpochDate == "Thu, 01 Jan 1970 00:00:00 GMT"

\* The values a request's cookies can carry: a sid is any id, of a live
\* token, of an expired one, or of one never issued.
SidCookieValues == {None, ""} \cup Sids

SaveCookieValues == {None, "", "1", "0"}

CookieJars == [sid : SidCookieValues, save : SaveCookieValues]

Uids == {2, 3}

\* The extra data (kwargs) a caller of update_session supplies.
ExtraData == {EmptyDict} \cup {[uid |-> u] : u \in Uids}

RemoteIp == "203.0.113.7"

UserAgent == "Mozilla/5.0"

cookie_domain == "options.cookie_domain"

cookie_secure == "options.cookie_secure"

\* --------------------------------------------------------- the Token Store
\* A store is a function from the ids of the live tokens to their documents.
\* A document is a dict with the keys _id, token_type, expire_at and the
\* fields written by add and update.  A lookup that finds nothing answers
\* EmptyDict: the callers only test the answer's truthiness.

\* now + expire_seconds, with the clock left abstract.
ExpireAt(expire_seconds) == <<"now+", expire_seconds>>

\* token.update(token_id, token_type, expire_seconds, **kwargs): renews the
\* token stored under (token_id, token_type) and answers its new document.
TokenUpdateHit(store, token_id, token_type) ==
  token_id \in DOMAIN store /\ store[token_id]["token_type"] = token_type

TokenUpdateDoc(store, token_id, token_type, expire_seconds, kwargs) ==
  IF TokenUpdateHit(store, token_id, token_type)
    THEN Merge(store[token_id],
               Merge(kwargs, [expire_at |-> ExpireAt(expire_seconds)]))
    ELSE EmptyDict

TokenUpdateStore(store, token_id, token_type, expire_seconds, kwargs) ==
  IF TokenUpdateHit(store, token_id, token_type)
    THEN [s \in DOMAIN store |->
            IF s = token_id
              THEN TokenUpdateDoc(store, token_id, token_type, expire_seconds, kwargs)
              ELSE store[s]]
    ELSE store

\* token.add(token_type, expire_seconds, **kwargs) -> (id, document), the id
\* being the next unused one.
TokenAddDoc(token_id, token_type, expire_seconds, kwargs) ==
  Merge(kwargs, [_id |-> token_id, token_type |-> token_type,
                 expire_at |-> ExpireAt(expire_seconds)])

TokenAddStore(store, token_id, token_type, expire_seconds, kwargs) ==
  [s \in (DOMAIN store) \cup {token_id} |->
     IF s = token_id
       THEN TokenAddDoc(token_id, token_type, expire_seconds, kwargs)
       ELSE store[s]]

\* token.delete(token_id, token_type) -> bool
TokenDeleteHit(store, token_id, token_type) ==
  token_id \in DOMAIN store /\ store[token_id]["token_type"] = token_type

TokenDeleteStore(store, token_id, token_type) ==
  IF TokenDeleteHit(store, token_id, token_type)
    THEN [s \in (DOMAIN store) \ {token_id} |-> store[s]]
    ELSE store

\* ------------------------------------------------ ViewBase: session layer

\* The call response.set_cookie(name, value, **kwargs): kwargs is the dict
\* of the attributes given (expires and max_age are keys only when passed).
SetCookie(name, value, kwargs) ==
  Merge([name |-> name, value |-> value], kwargs)

\* clear_cookies(*names): one set_cookie per name the request carries.
RECURSIVE clear_cookies(_, _)
clear_cookies(cookies, names) ==
  IF names = << >> THEN << >>
  ELSE (IF cookies[Head(names)] # None
          THEN <<SetCookie(Head(names), "",
                           [expires |-> EpochDate, domain |-> cookie_domain,
                            secure |-> cookie_secure, httponly |-> TRUE])>>
          ELSE << >>)
       \o clear_cookies(cookies, Tail(names))

\* (mutant) new_saved is honoured although the request names a session.
SessionSave_PrefersNewSaved(cookies, new_saved) ==
  new_saved \/ Truthy(cookies.save)

\* update_session, lines 85-87: whether the session is a saved one.
SessionSave(cookies, new_saved) ==
  IF ~Truthy(cookies.sid) THEN new_saved ELSE Truthy(cookies.save)

\* update_session, lines 88-93 (delete_session, lines 121-124).
SessionTokenType(save) ==
  IF save THEN TYPE_SAVED_SESSION ELSE TYPE_UNSAVED_SESSION

SessionExpireSeconds(save) ==
  IF save THEN saved_session_expire_seconds ELSE unsaved_session_expire_seconds

\* update_session, line 94: whether token.update is called.
SessionRenews(cookies) == Truthy(cookies.sid)

\* (mutant) a token is created without extra data.
SessionCreates_IgnoresData(kwargs, session) == session = EmptyDict

\* (mutant) a token is created although the renewal succeeded.
SessionCreates_IgnoresSession(kwargs, session) == kwargs # EmptyDict

\* update_session, line 99: whether token.add is called.
SessionCreates(kwargs, session) == kwargs # EmptyDict /\ session = EmptyDict

\* (mutant) expires and max_age are written for every session.
SessionCookieKwargs_AlwaysExpires(save, session) ==
  [domain |-> cookie_domain, secure |-> cookie_secure, httponly |-> TRUE,
   expires |-> <<"formatdate", session["expire_at"]>>,
   max_age |-> SessionExpireSeconds(save)]

\* update_session, lines 105-111: the attributes of the cookies it sets.
SessionCookieKwargs(save, session) ==
  Merge([domain |-> cookie_domain, secure |-> cookie_secure, httponly |-> TRUE],
        IF save
          THEN [expires |-> <<"formatdate", session["expire_at"]>>,
                max_age |-> SessionExpireSeconds(save)]
          ELSE EmptyDict)

\* (mutant) the save cookie of a saved session is not set.
SessionCookies_NoSaveCookie(cookies, sid, save, session) ==
  IF session # EmptyDict
    THEN <<SetCookie("sid", sid, SessionCookieKwargs(save, session))>>
    ELSE clear_cookies(cookies, <<"sid", "save">>)

\* (mutant) without a session both cookies are cleared, carried or not.
SessionCookies_ClearsAlways(cookies, sid, save, session) ==
  IF session # EmptyDict
    THEN (IF save
            THEN <<SetCookie("save", "1", SessionCookieKwargs(save, session))>>
            ELSE << >>)
         \o <<SetCookie("sid", sid, SessionCookieKwargs(save, session))>>
    ELSE clear_cookies([sid |-> "", save |-> ""], <<"sid", "save">>)

\* update_session, lines 104-115: the set_cookie calls on the response.
SessionCookies(cookies, sid, save, session) ==
  IF session # EmptyDict
    THEN (IF save
            THEN <<SetCookie("save", "1", SessionCookieKwargs(save, session))>>
            ELSE << >>)
         \o <<SetCookie("sid", sid, SessionCookieKwargs(save, session))>>
    ELSE clear_cookies(cookies, <<"sid", "save">>)

\* update_session(new_saved=..., **kwargs) on a request with `cookies`, the
\* Token Store being `store` and `next` the index of the next unused id:
\* what it returns (ret), the store it leaves, the Token Store calls it made
\* (store_ops) and the set_cookie calls it made (set_cookies).
update_session(cookies, new_saved, kwargs, store, next) ==
  LET save == SessionSave(cookies, new_saved)
      token_type == SessionTokenType(save)
      seconds == SessionExpireSeconds(save)
      renews == SessionRenews(cookies)
      update_kwargs ==
        Merge(kwargs, [update_ip |-> RemoteIp, update_ua |-> UserAgent])
      renewed ==
        IF renews
          THEN TokenUpdateDoc(store, cookies.sid, token_type, seconds, update_kwargs)
          ELSE EmptyDict
      store1 ==
        IF renews
          THEN TokenUpdateStore(store, cookies.sid, token_type, seconds, update_kwargs)
          ELSE store
      creates == SessionCreates(kwargs, renewed)
      add_kwargs ==
        Merge(kwargs, [create_ip |-> RemoteIp, create_ua |-> UserAgent])
      session ==
        IF creates
          THEN TokenAddDoc(SidNames[next], token_type, seconds, add_kwargs)
          ELSE renewed
      sid == IF creates THEN SidNames[next] ELSE cookies.sid
  IN [op |-> "update_session",
      cookies |-> cookies, new_saved |-> new_saved, kwargs |-> kwargs,
      save |-> save,
      ret |-> session,
      store |-> IF creates
                  THEN TokenAddStore(store1, SidNames[next], token_type, seconds,
                                     add_kwargs)
                  ELSE store1,
      next |-> IF creates THEN next + 1 ELSE next,
      store_ops |->
        (IF renews
           THEN <<[op |-> "update", token_id |-> cookies.sid,
                   token_type |-> token_type, expire_seconds |-> seconds,
                   kwargs |-> update_kwargs, result |-> renewed]>>
           ELSE << >>)
        \o (IF creates
              THEN <<[op |-> "add", token_id |-> SidNames[next],
                      token_type |-> token_type, expire_seconds |-> seconds,
                      kwargs |-> add_kwargs, result |-> session]>>
              ELSE << >>),
      set_cookies |-> SessionCookies(cookies, sid, save, session)]

\* (mutant) the cookies are cleared only when a token was deleted.
DeleteSessionCookies_OnlyWhenDeleted(cookies, deleted) ==
  IF deleted THEN clear_cookies(cookies, <<"sid", "save">>) ELSE << >>

\* delete_session, line 126: the set_cookie calls on the response, `deleted`
\* being what token.delete answered (line 125), if it was called.
DeleteSessionCookies(cookies, deleted) == clear_cookies(cookies, <<"sid", "save">>)

\* (mutant) the cookies are cleared but the token is left in the store.
delete_session_KeepsToken(cookies, store, next) ==
  [op |-> "delete_session",
   cookies |-> cookies, new_saved |-> FALSE, kwargs |-> EmptyDict,
   save |-> Truthy(cookies.save),
   ret |-> EmptyDict,
   store |-> store,
   next |-> next,
   store_ops |-> << >>,
   set_cookies |-> DeleteSessionCookies(cookies, FALSE)]

\* delete_session() on a request with `cookies`.
delete_session(cookies, store, next) ==
  LET deletes == Truthy(cookies.sid)
      token_type == SessionTokenType(Truthy(cookies.save))
  IN [op |-> "delete_session",
      cookies |-> cookies, new_saved |-> FALSE, kwargs |-> EmptyDict,
      save |-> Truthy(cookies.save),
      ret |-> EmptyDict,
      store |-> IF deletes
                  THEN TokenDeleteStore(store, cookies.sid, token_type)
                  ELSE store,
      next |-> next,
      store_ops |->
        IF deletes
          THEN <<[op |-> "delete", token_id |-> cookies.sid,
                  token_type |-> token_type, expire_seconds |-> None,
                  kwargs |-> EmptyDict,
                  result |-> TokenDeleteHit(store, cookies.sid, token_type)]>>
          ELSE << >>,
      set_cookies |->
        DeleteSessionCookies(cookies,
                             deletes /\ TokenDeleteHit(store, cookies.sid, token_type))]

\* The response's cookies after the set_cookie calls `calls`: the last call
\* for a name wins.
SetCookies(cookies, calls) ==
  [n \in (DOMAIN cookies) \cup {calls[i]["name"] : i \in DOMAIN calls} |->
     IF \E i \in DOMAIN calls : calls[i]["name"] = n
       THEN calls[CHOOSE i \in DOMAIN calls :
                    /\ calls[i]["name"] = n
                    /\ \A j \in DOMAIN calls : calls[j]["name"] = n => j <= i]
       ELSE cookies[n]]

\* csrf_token, lines 144-149, with _get_csrf_token (lines 243-245): the keyed
\* hash of the session id, a non-empty hex string, or '' without a session.
get_csrf_token(session_id) == <<"hmac-sha256", "csrf_token", session_id>>

csrf_token(session) ==
  IF session # EmptyDict THEN get_csrf_token(session["_id"]) ELSE << >>

\* --------------------------------------------- builtin, users and domains

DOMAIN_ID_SYSTEM == "system"

ROLE_DEFAULT == "default"

PERM_NONE == 0

UID_GUEST == 1

USER_GUEST == [_id |-> UID_GUEST, roles |-> EmptyDict, priv |-> 0]

\* The user records of the lifecycle model: uid 2 has one, uid 3 (of Uids)
\* has none, as after the user was removed.
UserDB == (2 :> [_id |-> 2, roles |-> [d1 |-> "member"], priv |-> 1])

\* user.get_by_uid(uid): the record, or nothing.
get_by_uid(uid) == IF uid \in DOMAIN UserDB THEN UserDB[uid] ELSE EmptyDict

\* The domain records of the lifecycle model; "acmoj" has none.
DomainDB ==
  [system |-> [_id |-> "system", owner_uid |-> 0,
               roles |-> [default |-> 1]],
   d1 |-> [_id |-> "d1", owner_uid |-> 3,
           roles |-> [default |-> 0, member |-> 3]]]

\* domain.get(domain_id): the record, or nothing.
domain_get(domain_id) ==
  IF domain_id \in DOMAIN DomainDB THEN DomainDB[domain_id] ELSE EmptyDict

\* What a route's match_info can hold for domain_id (None: no such key).
RouteDomainIds == {None, "d1", "acmoj"}

\* The user-facing errors (vj4.error): each declares an HTTP status and a
\* template, and to_dict() names the error and its arguments.
UserFacingError(name, args) ==
  [name |-> name, args |-> args, user_facing |-> TRUE,
   http_status |-> <<"http_status", name>>,
   template_name |-> <<"template_name", name>>]

to_dict(e) == [name |-> e.name, args |-> e.args]

NoError == [name |-> None, args |-> << >>, user_facing |-> FALSE,
            http_status |-> << >>, template_name |-> << >>]

\* --------------------------------------------------------- ViewBase.prepare

\* (mutant) no guest fallback when the uid has no user record.
PrepareUser_NoFallback(session) ==
  IF session # EmptyDict /\ "uid" \in DOMAIN session
    THEN get_by_uid(session["uid"])
    ELSE USER_GUEST

\* prepare, lines 33-36: the user of the request.
PrepareUser(session) ==
  IF session # EmptyDict /\ "uid" \in DOMAIN session
    THEN (IF get_by_uid(session["uid"]) # EmptyDict
            THEN get_by_uid(session["uid"])
            ELSE USER_GUEST)
    ELSE USER_GUEST

\* prepare, line 39: match_info.pop('domain_id', DOMAIN_ID_SYSTEM).
PrepareDomainId(route) == IF route = None THEN DOMAIN_ID_SYSTEM ELSE route

\* (mutant) the domain is looked up, and found missing, before the domain
\* context is set.
PrepareAttributes_DomainFirst(session, route) ==
  IF domain_get(PrepareDomainId(route)) = EmptyDict
    THEN [session |-> session,
          user |-> PrepareUser(session),
          locale_context |-> <<"locale_context", "view_lang", "Asia/Shanghai">>,
          domain_id |-> PrepareDomainId(route),
          domain |-> EmptyDict]
    ELSE [session |-> session,
          user |-> PrepareUser(session),
          locale_context |-> <<"locale_context", "view_lang", "Asia/Shanghai">>,
          domain_id |-> PrepareDomainId(route),
          domain_context |-> <<"domain_context", PrepareDomainId(route)>>,
          reverse_url |-> <<"reverse_url", PrepareDomainId(route)>>,
          build_path |-> <<"build_path", PrepareDomainId(route)>>,
          domain |-> domain_get(PrepareDomainId(route))]

\* prepare, lines 32-43: the attributes it sets on the view.
PrepareAttributes(session, route) ==
  [session |-> session,
   user |-> PrepareUser(session),
   locale_context |-> <<"locale_context", "view_lang", "Asia/Shanghai">>,
   domain_id |-> PrepareDomainId(route),
   domain_context |-> <<"domain_context", PrepareDomainId(route)>>,
   reverse_url |-> <<"reverse_url", PrepareDomainId(route)>>,
   build_path |-> <<"build_path", PrepareDomainId(route)>>,
   domain |-> domain_get(PrepareDomainId(route))]

\* ---------------------------------------------------- permission resolver

RECURSIVE BitAnd(_, _)
\* a & b on non-negative integers.
BitAnd(a, b) ==
  IF a = 0 \/ b = 0 THEN 0
  ELSE (a % 2) * (b % 2) + 2 * BitAnd(a \div 2, b \div 2)

\* (mutant) the owner of the domain gets no bypass.
has_perm_NoOwnerBypass(v, perm) ==
  LET role == Get(v["user"]["roles"], v["domain_id"], ROLE_DEFAULT)
      mask == Get(v["domain"]["roles"], role, PERM_NONE)
  IN BitAnd(perm, mask) = perm

\* has_perm(perm) on a view with the attributes v, lines 56-59.
has_perm(v, perm) ==
  LET role == Get(v["user"]["roles"], v["domain_id"], ROLE_DEFAULT)
      mask == Get(v["domain"]["roles"], role, PERM_NONE)
  IN BitAnd(perm, mask) = perm \/ v["domain"]["owner_uid"] = v["user"]["_id"]

\* has_priv(priv), lines 65-66.
has_priv(v, priv) == BitAnd(priv, v["user"]["priv"]) = priv

\* check_perm and check_priv, lines 61-63 and 68-70: the error raised.
check_perm(v, perm) ==
  IF ~has_perm(v, perm) THEN UserFacingError("PermissionError", <<perm>>)
                        ELSE NoError

check_priv(v, priv) ==
  IF ~has_priv(v, priv) THEN UserFacingError("PrivilegeError", <<priv>>)
                        ELSE NoError

\* ---------------------------------------------------------------- decorators
\* A call of a decorated handler answers the error it raised (NoError if
\* none) and the keyword arguments of each invocation of the wrapped
\* handler.

\* (mutant) the handler runs before the permission is checked.
require_perm_HandlerFirst(v, perm, kwargs) ==
  [raised |-> check_perm(v, perm), invoked |-> <<kwargs>>]

\* require_perm(perm)(func)(self, **kwargs), lines 280-287.
require_perm(v, perm, kwargs) ==
  IF check_perm(v, perm) # NoError
    THEN [raised |-> check_perm(v, perm), invoked |-> << >>]
    ELSE [raised |-> NoError, invoked |-> <<kwargs>>]

\* require_priv(priv)(func)(self, **kwargs), lines 289-296.
require_priv(v, priv, kwargs) ==
  IF check_priv(v, priv) # NoError
    THEN [raised |-> check_priv(v, priv), invoked |-> << >>]
    ELSE [raised |-> NoError, invoked |-> <<kwargs>>]

\* kwargs.pop(key, None), for the dict it leaves.
Pop(kwargs, key) == [k \in (DOMAIN kwargs) \ {key} |-> kwargs[k]]

\* (mutant) a request that supplies no token is let through.
require_csrf_token_MissingPasses(v, kwargs) ==
  IF /\ csrf_token(v["session"]) # << >>
     /\ "csrf_token" \in DOMAIN kwargs
     /\ csrf_token(v["session"]) # kwargs["csrf_token"]
    THEN [raised |-> UserFacingError("CsrfTokenError", << >>), invoked |-> << >>]
    ELSE [raised |-> NoError, invoked |-> <<Pop(kwargs, "csrf_token")>>]

\* require_csrf_token(func)(self, **kwargs), lines 298-304.  The token is
\* popped from kwargs only when the expected token is non-empty (`and`
\* does not evaluate its right side otherwise).
require_csrf_token(v, kwargs) ==
  IF csrf_token(v["session"]) # << >>
    THEN IF csrf_token(v["session"]) # Get(kwargs, "csrf_token", << >>)
           THEN [raised |-> UserFacingError("CsrfTokenError", << >>),
                 invoked |-> << >>]
           ELSE [raised |-> NoError, invoked |-> <<Pop(kwargs, "csrf_token")>>]
    ELSE [raised |-> NoError, invoked |-> <<kwargs>>]

\* ------------------------------------------------------------------ sanitize

\* What int(value) answers for the strings that spell an integer; for any
\* other string it raises ValueError.
IntOf == [v \in {"7", "0"} |-> IF v = "7" THEN 7 ELSE 0]

\* annotation(value) for the conversion functions of the annotations: the
\* error it raises, or the converted value.
Convert(annotation, value) ==
  IF annotation = "int"
    THEN IF value \in DOMAIN IntOf
           THEN [raised |-> NoError, value |-> IntOf[value]]
           ELSE [raised |-> [name |-> "ValueError", args |-> <<value>>,
                             user_facing |-> FALSE, http_status |-> << >>,
                             template_name |-> << >>],
                 value |-> None]
    ELSE [raised |-> NoError, value |-> value]

\* (mutant) a value without an annotation is passed on as it came.
SanitizeValue_PassesUnannotated(annotations, key, value) ==
  IF key \notin DOMAIN annotations
    THEN [raised |-> NoError, value |-> value]
    ELSE Convert(annotations[key], value)

\* sanitize, line 328: func.__annotations__[key](value), which raises
\* KeyError for a key without an annotation.
SanitizeValue(annotations, key, value) ==
  IF key \notin DOMAIN annotations
    THEN [raised |-> [name |-> "KeyError", args |-> <<key>>,
                      user_facing |-> FALSE, http_status |-> << >>,
                      template_name |-> << >>],
          value |-> None]
    ELSE Convert(annotations[key], value)

\* sanitize, lines 327-328: the loop over kwargs.items(), in the order of
\* the call's keyword arguments (items: <<key, value>> pairs, kwargs: the
\* dict with the values converted so far); the first error ends it.
RECURSIVE SanitizeLoop(_, _, _)
SanitizeLoop(annotations, items, kwargs) ==
  IF items = << >> THEN [raised |-> NoError, kwargs |-> kwargs]
  ELSE LET key == Head(items)[1]
           r == SanitizeValue(annotations, key, Head(items)[2])
       IN IF r.raised # NoError
            THEN [raised |-> r.raised, kwargs |-> kwargs]
            ELSE SanitizeLoop(annotations, Tail(items),
                              Merge(kwargs, (key :> r.value)))

\* The dict of a call's keyword arguments.
KwargsDict(items) ==
  [k \in {items[i][1] : i \in DOMAIN items} |->
     items[CHOOSE i \in DOMAIN items : items[i][1] = k][2]]

\* sanitize(func)(self, **kwargs), lines 324-330, func being annotated with
\* `annotations`.
sanitize(annotations, items) ==
  LET r == SanitizeLoop(annotations, items, KwargsDict(items))
  IN IF r.raised # NoError
       THEN [raised |-> r.raised, invoked |-> << >>]
       ELSE [raised |-> NoError, invoked |-> <<r.kwargs>>]

\* ------------------------------------------------------ OperationView.post

\* An exception that is not of the user-facing taxonomy.
RaisedError(name, args) ==
  [name |-> name, args |-> args, user_facing |-> FALSE,
   http_status |-> << >>, template_name |-> << >>]

\* The name 'post_' + operation.
PostMethodName(operation) == <<"post_", operation>>

\* The post_* methods the OperationView defines.
PostMethods == {PostMethodName("star"), PostMethodName("unstar")}

\* The values of a form's operation field.
Operations == {"star", "unstar", "nope"}

\* The forms posted: with or without the operation field, with or without
\* other fields.
PostForms ==
  {EmptyDict, [pid |-> "p1"]}
    \cup {[operation |-> o] : o \in Operations}
    \cup {[operation |-> o, pid |-> "p1"] : o \in Operations}

\* (mutant) the operation field stays among the keyword arguments.
post_KeepsOperation(form) ==
  IF "operation" \notin DOMAIN form
    THEN [raised |-> RaisedError("KeyError", <<"operation">>), invoked |-> << >>]
    ELSE IF PostMethodName(form["operation"]) \notin PostMethods
      THEN [raised |-> UserFacingError("InvalidOperationError", <<form["operation"]>>),
            invoked |-> << >>]
      ELSE [raised |-> NoError,
            invoked |-> <<[method |-> PostMethodName(form["operation"]),
                           kwargs |-> form]>>]

\* OperationView.post(), lines 212-219, on a request whose form is `form`:
\* the error it raises and the post_* method it invokes, with which keyword
\* arguments.  arguments.pop('operation') raises KeyError without the field.
post(form) ==
  IF "operation" \notin DOMAIN form
    THEN [raised |-> RaisedError("KeyError", <<"operation">>), invoked |-> << >>]
    ELSE IF PostMethodName(form["operation"]) \notin PostMethods
      THEN [raised |-> UserFacingError("InvalidOperationError", <<form["operation"]>>),
            invoked |-> << >>]
      ELSE [raised |-> NoError,
            invoked |-> <<[method |-> PostMethodName(form["operation"]),
                           kwargs |-> Pop(form, "operation")]>>]

\* ---------------------------------------------------- View: error translation

\* (mutant) JSON wins wherever it stands among the entries.
prefer_json_AnyJson(entries) ==
  \E i \in DOMAIN entries : entries[i] = "application/json"

\* prefer_json, lines 181-188, on the entries accept.parse answers for the
\* Accept header (their media types, in order; none without the header).
RECURSIVE prefer_json(_)
prefer_json(entries) ==
  IF entries = << >> THEN FALSE
  ELSE IF Head(entries) = "application/json" THEN TRUE
  ELSE IF Head(entries) = "text/html" \/ Head(entries) = "*/*" THEN FALSE
  ELSE prefer_json(Tail(entries))

\* json.encode(obj)
json_encode(obj) == [format |-> "json", value |-> obj]

\* render_html(template_name, **kwargs), lines 173-175.
render_html(v, template_name, kwargs) ==
  [format |-> "html", template_name |-> template_name,
   context |-> Merge([domain_context |-> v["domain_context"],
                      locale_context |-> v["locale_context"]], kwargs)]

\* (mutant) the status of the response is left as it was.
TranslateError_KeepsStatus(v, resp, e, entries) ==
  IF prefer_json(entries)
    THEN [resp EXCEPT !.content_type = "application/json",
                      !.text = json_encode([error |-> to_dict(e)])]
    ELSE [resp EXCEPT !.content_type = "text/html",
                      !.text = render_html(v, e.template_name,
                                 [error |-> e,
                                  path_components |-> <<v["build_path"], <<"error", None>>>>,
                                  page_name |-> "error",
                                  page_title |-> <<v["locale_context"], "error">>])]

\* View.__iter__, lines 158-166: the response after the user-facing error e
\* was caught, for a request whose Accept header parses to `entries`.
TranslateError(v, resp, e, entries) ==
  IF prefer_json(entries)
    THEN [resp EXCEPT !.status = e.http_status,
                      !.content_type = "application/json",
                      !.text = json_encode([error |-> to_dict(e)])]
    ELSE [resp EXCEPT !.status = e.http_status,
                      !.content_type = "text/html",
                      !.text = render_html(v, e.template_name,
                                 [error |-> e,
                                  path_components |-> <<v["build_path"], <<"error", None>>>>,
                                  page_name |-> "error",
                                  page_title |-> <<v["locale_context"], "error">>])]

\* redirect(redirect_url), lines 194-196.
redirect(resp, redirect_url) ==
  [resp EXCEPT !.status = <<"http_status", "HTTPFound">>,
               !.headers = Merge(@, [Location |-> redirect_url])]

\* json_or_redirect(redirect_url, **kwargs), lines 198-203, for a request
\* whose Accept header parses to `entries`.
json_or_redirect(resp, entries, redirect_url, kwargs) ==
  IF prefer_json(entries)
    THEN [resp EXCEPT !.content_type = "application/json",
                      !.text = json_encode(kwargs)]
    ELSE redirect(resp, redirect_url)

\* ------------------------------------------------------------------- state

VARIABLES
  tokens,     \* the Token Store: token id -> document
  nextId,     \* index into SidNames of the id token.add hands out next
  pc,         \* where the request being served is in View.__iter__
  cookies,    \* request.cookies of the request being served
  accept,     \* the parsed Accept header of the request, once it was read
  view,       \* the attributes prepare has set on the view (self.__dict__)
  response,   \* self.response
  last,       \* the latest update_session / delete_session call of the request
  guard,      \* the decorated handler the request was dispatched to
  invoked,    \* the keyword arguments of each invocation of the handler
  asked,      \* the latest has_perm question of the handler and its answer
  err         \* the exception in flight or caught

vars == <<tokens, nextId, pc, cookies, accept, view, response, last, guard,
          invoked, asked, err>>

NoCookies == [sid |-> None, save |-> None]

\* web.Response()
NewResponse ==
  [status |-> <<"http_status", "OK">>, headers |-> EmptyDict,
   cookies |-> EmptyDict,
   content_type |-> "application/octet-stream", text |-> EmptyDict]

NoCall ==
  [op |-> "none", cookies |-> NoCookies, new_saved |-> FALSE,
   kwargs |-> EmptyDict, save |-> FALSE, ret |-> EmptyDict,
   store_ops |-> << >>, set_cookies |-> << >>, by |-> "none"]

\* What `last` keeps of a call c made by `by` (prepare or the handler).
CallRecord(c, by) ==
  [op |-> c.op, cookies |-> c.cookies, new_saved |-> c.new_saved,
   kwargs |-> c.kwargs, save |-> c.save, ret |-> c.ret,
   store_ops |-> c.store_ops, set_cookies |-> c.set_cookies, by |-> by]

NoGuard == [kind |-> "none", bit |-> 0, kwargs |-> EmptyDict]

NotAsked == [perm |-> 0, answer |-> FALSE, asked |-> FALSE]

Unread == <<"unread">>

\* The state of a request that has not started.
Fresh ==
  /\ cookies = NoCookies
  /\ accept = Unread
  /\ view = EmptyDict
  /\ response = NewResponse
  /\ last = NoCall
  /\ guard = NoGuard
  /\ invoked = << >>
  /\ asked = NotAsked
  /\ err = NoError

Init ==
  /\ tokens = EmptyDict
  /\ nextId = 1
  /\ pc = "IDLE"
  /\ Fresh

\* The permission and privilege bits of the model.
PermBits == 2

Perms == 0..(2^PermBits - 1)

\* The keyword arguments a decorated handler is called with.
HandlerKwargs == {EmptyDict, [pid |-> "p1"]}

\* The csrf_token values a request supplies.
SuppliedTokens ==
  {<< >>, <<"bogus">>} \cup {get_csrf_token(SidNames[i]) : i \in 1..2}

CsrfKwargs ==
  HandlerKwargs
    \cup {[csrf_token |-> t] : t \in SuppliedTokens}
    \cup {[pid |-> "p1", csrf_token |-> t] : t \in SuppliedTokens}

\* The parsed Accept headers of the requests served (<< >>: no header).
AcceptHeaders == {<< >>, <<"application/json">>, <<"text/html">>}

\* The bits the decorators of the routed handlers ask for.
RoutePerms == {1, 2}

\* What a handler raises on its own: an error of the taxonomy, or a failure
\* that is not user-facing.
HandlerErrors ==
  {UserFacingError("InvalidOperationError", <<"nope">>),
   [name |-> "Exception", args |-> << >>, user_facing |-> FALSE,
    http_status |-> << >>, template_name |-> << >>]}

\* A request arrives with any cookies; View.__iter__ line 155.
NewRequest ==
  /\ pc = "IDLE"
  /\ \E c \in CookieJars : cookies' = c
  /\ pc' = "START"
  /\ response' = NewResponse
  /\ UNCHANGED <<tokens, nextId, accept, view, last, guard, invoked,
                 asked, err>>

\* View.__iter__ line 156: ViewBase.prepare, lines 30-45.
Prepare ==
  /\ pc = "START"
  /\ \E route \in RouteDomainIds :
       LET c == update_session(cookies, FALSE, EmptyDict, tokens, nextId)
           attrs == PrepareAttributes(c.ret, route)
       IN /\ c.next <= MaxTokens + 1
          /\ tokens' = c.store
          /\ nextId' = c.next
          /\ last' = CallRecord(c, "prepare")
          /\ response' = [response EXCEPT !.cookies = SetCookies(@, c.set_cookies)]
          /\ view' = Merge(view, attrs)
          /\ IF attrs.domain = EmptyDict
               THEN /\ pc' = "RAISED"
                    /\ err' = UserFacingError("DomainNotFoundError",
                                              <<attrs.domain_id>>)
               ELSE /\ pc' = "CONTEXT_BUILT"
                    /\ err' = err
  /\ UNCHANGED <<cookies, accept, guard, invoked, asked>>

\* The outcome r of calling the decorated handler g.
Guarded(g, r) ==
  /\ guard' = g
  /\ err' = r.raised
  /\ invoked' = r.invoked
  /\ pc' = IF r.raised # NoError THEN "RAISED" ELSE "HANDLER_RUNNING"
  /\ UNCHANGED <<tokens, nextId, cookies, accept, view, response, last, asked>>

\* View.__iter__ line 157: the request is dispatched to its handler, plain
\* or decorated with require_perm, require_priv or require_csrf_token; a
\* guard that fails raises, else the handler runs.
Dispatch ==
  /\ pc = "CONTEXT_BUILT"
  /\ \E r \in {[raised |-> NoError, invoked |-> <<EmptyDict>>]}
                \cup {require_perm(view, perm, EmptyDict) : perm \in RoutePerms}
                \cup {require_priv(view, priv, EmptyDict) : priv \in RoutePerms}
                \cup {require_csrf_token(view, kwargs) : kwargs \in CsrfKwargs} :
       /\ err' = r.raised
       /\ pc' = IF r.raised # NoError THEN "RAISED" ELSE "HANDLER_RUNNING"
  /\ UNCHANGED <<tokens, nextId, cookies, accept, view, response, last, guard,
                 invoked, asked>>

\* A decorated handler is called in the context `view`.
\* The handler is decorated with require_perm(perm).
CallRequirePerm ==
  /\ pc = "CONTEXT_BUILT"
  /\ \E perm \in Perms, kwargs \in HandlerKwargs :
       Guarded([kind |-> "require_perm", bit |-> perm, kwargs |-> kwargs],
               require_perm(view, perm, kwargs))

\* The handler is decorated with require_priv(priv).
CallRequirePriv ==
  /\ pc = "CONTEXT_BUILT"
  /\ \E priv \in Perms, kwargs \in HandlerKwargs :
       Guarded([kind |-> "require_priv", bit |-> priv, kwargs |-> kwargs],
               require_priv(view, priv, kwargs))

\* The handler is decorated with require_csrf_token.
CallRequireCsrfToken ==
  /\ pc = "CONTEXT_BUILT"
  /\ \E kwargs \in CsrfKwargs :
       Guarded([kind |-> "require_csrf_token", bit |-> 0, kwargs |-> kwargs],
               require_csrf_token(view, kwargs))

\* The handler asks self.has_perm(perm).
CallHasPerm ==
  /\ pc = "HANDLER_RUNNING"
  /\ \E perm \in Perms :
       asked' = [perm |-> perm, answer |-> has_perm(view, perm), asked |-> TRUE]
  /\ UNCHANGED <<tokens, nextId, pc, cookies, accept, view, response, last,
                 guard, invoked, err>>

\* The handler calls self.update_session(new_saved=..., **kwargs) and
\* returns, as login does.
HandlerUpdateSession ==
  /\ pc = "HANDLER_RUNNING"
  /\ \E new_saved \in BOOLEAN, kwargs \in ExtraData :
       LET c == update_session(cookies, new_saved, kwargs, tokens, nextId)
       IN /\ c.next <= MaxTokens + 1
          /\ tokens' = c.store
          /\ nextId' = c.next
          /\ last' = CallRecord(c, "handler")
          /\ response' = [response EXCEPT !.cookies = SetCookies(@, c.set_cookies)]
  /\ pc' = "RESPONSE_READY"
  /\ UNCHANGED <<cookies, accept, view, guard, invoked, asked, err>>

\* The handler calls self.delete_session() and returns, as logout does.
HandlerDeleteSession ==
  /\ pc = "HANDLER_RUNNING"
  /\ LET c == delete_session(cookies, tokens, nextId)
     IN /\ tokens' = c.store
        /\ last' = CallRecord(c, "handler")
        /\ response' = [response EXCEPT !.cookies = SetCookies(@, c.set_cookies)]
  /\ pc' = "RESPONSE_READY"
  /\ UNCHANGED <<nextId, cookies, accept, view, guard, invoked, asked, err>>

\* The handler is OperationView.post, lines 212-219: it raises, or the
\* post_* method it invokes runs and returns.
HandlerPost ==
  /\ pc = "HANDLER_RUNNING"
  /\ \E form \in PostForms :
       /\ guard' = [kind |-> "post", bit |-> 0, kwargs |-> form]
       /\ invoked' = post(form).invoked
       /\ err' = post(form).raised
       /\ pc' = IF post(form).raised # NoError THEN "RAISED" ELSE "RESPONSE_READY"
  /\ UNCHANGED <<tokens, nextId, cookies, accept, view, response, last, asked>>

\* The handler returns without a session call.
HandlerReturn ==
  /\ pc = "HANDLER_RUNNING"
  /\ pc' = "RESPONSE_READY"
  /\ UNCHANGED <<tokens, nextId, cookies, accept, view, response, last, guard, invoked, asked, err>>

\* The handler raises.
HandlerRaise ==
  /\ pc = "HANDLER_RUNNING"
  /\ \E e \in HandlerErrors : err' = e
  /\ pc' = "RAISED"
  /\ UNCHANGED <<tokens, nextId, cookies, accept, view, response, last, guard, invoked, asked>>

\* View.__iter__ lines 158-166: a user-facing error is caught and translated.
Translate ==
  /\ pc = "RAISED"
  /\ err.user_facing
  /\ \E entries \in AcceptHeaders :
       /\ accept' = entries
       /\ response' = TranslateError(view, response, err, entries)
  /\ pc' = "ERROR_TRANSLATED"
  /\ UNCHANGED <<tokens, nextId, cookies, view, last, guard, invoked,
                 asked, err>>

\* Any other exception leaves View.__iter__: no response is returned.
Propagate ==
  /\ pc = "RAISED"
  /\ ~err.user_facing
  /\ pc' = "PROPAGATED"
  /\ UNCHANGED <<tokens, nextId, cookies, accept, view, response, last, guard, invoked, asked, err>>

\* View.__iter__ line 167: the response is returned, or the exception has
\* left; the view is dropped.
Finish ==
  /\ pc \in {"RESPONSE_READY", "ERROR_TRANSLATED", "PROPAGATED"}
  /\ pc' = "IDLE"
  /\ cookies' = NoCookies
  /\ accept' = Unread
  /\ view' = EmptyDict
  /\ response' = NewResponse
  /\ last' = NoCall
  /\ guard' = NoGuard
  /\ invoked' = << >>
  /\ asked' = NotAsked
  /\ err' = NoError
  /\ UNCHANGED <<tokens, nextId>>

\* The Token Store drops a token whose expire_at has passed.  The store is
\* read and written by the session calls only, so an expiry after the last
\* of them is the same as one before the next request: it is taken between
\* requests and while the handler runs.
Expire ==
  /\ pc \in {"IDLE", "HANDLER_RUNNING"}
  /\ \E s \in DOMAIN tokens :
       tokens' = [t \in (DOMAIN tokens) \ {s} |-> tokens[t]]
  /\ UNCHANGED <<nextId, pc, cookies, accept, view, response, last, guard, invoked, asked, err>>

\* ViewBase.prepare fails with an exception that is not user-facing: the
\* Token Store is unreachable when update_session renews (line 95).  Nothing
\* was set on the view yet.
PrepareRaise ==
  /\ pc = "START"
  /\ SessionRenews(cookies)
  /\ err' = RaisedError("Exception", << >>)
  /\ pc' = "RAISED"
  /\ UNCHANGED <<tokens, nextId, cookies, accept, view, response, last, guard,
                 invoked, asked>>

Next ==
  \/ NewRequest
  \/ Prepare
  \/ PrepareRaise
  \/ Dispatch
  \/ HandlerUpdateSession
  \/ HandlerDeleteSession
  \/ HandlerPost
  \/ HandlerReturn
  \/ HandlerRaise
  \/ Translate
  \/ Propagate
  \/ Finish
  \/ Expire

Spec == Init /\ [][Next]_vars

\* ------------------------------------------ the guards on their own
\* The permission resolver and the decorators are functions of the context
\* prepare built: here the context is any one made of GuardSessions,
\* GuardUsers and GuardDomains.

GuardSessions ==
  {EmptyDict, [_id |-> "s1"], [_id |-> "s1", uid |-> 2], [_id |-> "s2", uid |-> 3]}

UserRoleMaps == {EmptyDict, [d1 |-> "member"], [d1 |-> "ghost"]}

DomainRoleMaps ==
  {EmptyDict}
    \cup {[default |-> m] : m \in Perms}
    \cup {[default |-> PERM_NONE, member |-> m] : m \in Perms}

GuardUsers(session) ==
  IF session # EmptyDict /\ "uid" \in DOMAIN session
    THEN {[_id |-> session["uid"], roles |-> r, priv |-> p] :
            r \in UserRoleMaps, p \in Perms} \cup {USER_GUEST}
    ELSE {USER_GUEST}

GuardDomains ==
  {[_id |-> d, owner_uid |-> o, roles |-> r] :
     d \in {DOMAIN_ID_SYSTEM, "d1"}, o \in {2, 0}, r \in DomainRoleMaps}

InitGuard ==
  /\ tokens = EmptyDict
  /\ nextId = 1
  /\ pc = "CONTEXT_BUILT"
  /\ cookies = NoCookies
  /\ accept = Unread
  /\ response = NewResponse
  /\ last = NoCall
  /\ guard = NoGuard
  /\ invoked = << >>
  /\ asked = NotAsked
  /\ err = NoError
  /\ \E session \in GuardSessions, d \in GuardDomains :
       \E u \in GuardUsers(session) :
         view = [session |-> session, user |-> u, domain_id |-> d["_id"],
                 domain |-> d]

NextGuard ==
  \/ CallRequirePerm
  \/ CallRequirePriv
  \/ CallRequireCsrfToken
  \/ CallHasPerm

SpecGuard == InitGuard /\ [][NextGuard]_vars

\* ------------------------------------------- handlers on their own
\* OperationView.post, sanitize and json_or_redirect are functions of the
\* request (its form, its keyword arguments, its Accept header): here they
\* are called in a context prepare built, on requests of bounded sets.

\* The request is a POST to an OperationView.
CallPost ==
  /\ pc = "CONTEXT_BUILT"
  /\ \E form \in PostForms :
       Guarded([kind |-> "post", bit |-> 0, kwargs |-> form], post(form))

\* The longest parsed Accept header.
MaxAccept == 3

\* The media types of the entries accept.parse answers ("*/*" is the entry
\* whose all_types is true).
MediaTypes == {"application/json", "text/html", "*/*", "text/plain"}

RECURSIVE SeqsUpTo(_, _)
\* The sequences over S of length n at most.
SeqsUpTo(S, n) ==
  IF n = 0 THEN {<< >>}
  ELSE SeqsUpTo(S, n - 1)
         \cup {Append(q, x) : q \in SeqsUpTo(S, n - 1), x \in S}

AcceptEntries == SeqsUpTo(MediaTypes, MaxAccept)

\* The running handler answers with self.json_or_redirect(url, **kwargs).
CallJsonOrRedirect ==
  /\ pc = "HANDLER_RUNNING"
  /\ \E entries \in AcceptEntries, kwargs \in HandlerKwargs :
       /\ accept' = entries
       /\ response' = json_or_redirect(response, entries,
                                       <<view["reverse_url"], "main">>, kwargs)
  /\ pc' = "RESPONSE_READY"
  /\ UNCHANGED <<tokens, nextId, cookies, view, last, guard, invoked, asked, err>>

\* The annotations of the handler wrapped in sanitize.
Annotations == [pid |-> "str", uid |-> "int"]

\* The keyword arguments the sanitized handler is called with: each of some
\* of the names once, in any order, with any value.
SanitizeCalls ==
  LET names == {"pid", "uid", "junk"}
      values == {"7", "x"}
  IN {q \in SeqsUpTo(names \X values, Cardinality(names)) :
        \A i, j \in DOMAIN q : q[i][1] = q[j][1] => i = j}

\* The handler is wrapped in sanitize.
CallSanitize ==
  /\ pc = "CONTEXT_BUILT"
  /\ \E items \in SanitizeCalls :
       Guarded([kind |-> "sanitize", bit |-> 0, kwargs |-> items],
               sanitize(Annotations, items))

\* The contexts the handlers are called in.
HandlerContexts ==
  {PrepareAttributes(session, route) :
     session \in GuardSessions, route \in {None, "d1"}}

InitHandler ==
  /\ tokens = EmptyDict
  /\ nextId = 1
  /\ pc = "CONTEXT_BUILT"
  /\ cookies = NoCookies
  /\ accept = Unread
  /\ response = NewResponse
  /\ last = NoCall
  /\ guard = NoGuard
  /\ invoked = << >>
  /\ asked = NotAsked
  /\ err = NoError
  /\ view \in HandlerContexts

NextHandler ==
  \/ CallPost
  \/ CallSanitize
  \/ CallJsonOrRedirect

SpecHandler == InitHandler /\ [][NextHandler]_vars

\* ------------------------------------------- one client and its cookie jar
\* The requests are those of one client whose cookie jar starts empty and
\* changes only by the cookies of the responses it gets.  Between requests
\* `cookies` is the jar; a request carries the jar.

\* Whether the cookie c of a response is one the client drops: its expiry is
\* in the past.
IsExpiredCookie(c) == "expires" \in DOMAIN c /\ c["expires"] = EpochDate

\* The jar after the client applied the cookies `set` of a response.
ApplyCookies(jar, set) ==
  [n \in DOMAIN jar |->
     IF n \in DOMAIN set
       THEN (IF IsExpiredCookie(set[n]) THEN None ELSE set[n]["value"])
       ELSE jar[n]]

\* The client sends its next request, with the cookies of its jar.
JarRequest ==
  /\ pc = "IDLE"
  /\ pc' = "START"
  /\ response' = NewResponse
  /\ UNCHANGED <<tokens, nextId, cookies, accept, view, last, guard, invoked,
                 asked, err>>

\* View.__iter__ line 167: the response is returned and the client applies
\* its cookies; when the exception has left the View the client gets no
\* response of the View and its jar stays.
JarFinish ==
  /\ pc \in {"RESPONSE_READY", "ERROR_TRANSLATED", "PROPAGATED"}
  /\ pc' = "IDLE"
  /\ cookies' = IF pc = "PROPAGATED"
                  THEN cookies
                  ELSE ApplyCookies(cookies, response.cookies)
  /\ accept' = Unread
  /\ view' = EmptyDict
  /\ response' = NewResponse
  /\ last' = NoCall
  /\ guard' = NoGuard
  /\ invoked' = << >>
  /\ asked' = NotAsked
  /\ err' = NoError
  /\ UNCHANGED <<tokens, nextId>>

NextJar ==
  \/ JarRequest
  \/ Prepare
  \/ PrepareRaise
  \/ Dispatch
  \/ HandlerUpdateSession
  \/ HandlerDeleteSession
  \/ HandlerReturn
  \/ HandlerRaise
  \/ Translate
  \/ Propagate
  \/ JarFinish
  \/ Expire

SpecJar == Init /\ [][NextJar]_vars

\* ------------------------------------------- two requests in flight
\* Two requests with the same cookies are served at once: "logout", whose
\* handler calls delete_session, and "renew", which calls update_session
\* with no extra data (as prepare does).  A coroutine runs from one await
\* to the next without interruption and each of these calls awaits one
\* Token Store operation at most, so each call is one step.  Here pc, last
\* and response hold one value for each of the two requests.

\* The stores the two requests find: empty, or with the token "s1" of
\* either class.
RaceStores ==
  {EmptyDict}
    \cup {TokenAddStore(EmptyDict, SidNames[1], SessionTokenType(saved),
                        SessionExpireSeconds(saved), [uid |-> 2]) :
            saved \in BOOLEAN}

InitRace ==
  /\ tokens \in RaceStores
  /\ nextId = 2
  /\ cookies \in CookieJars
  /\ pc = [logout |-> "START", renew |-> "START"]
  /\ last = [logout |-> NoCall, renew |-> NoCall]
  /\ response = [logout |-> NewResponse, renew |-> NewResponse]
  /\ accept = Unread
  /\ view = EmptyDict
  /\ guard = NoGuard
  /\ invoked = << >>
  /\ asked = NotAsked
  /\ err = NoError

\* The session call c of the request r.
RaceCall(r, c, by, to) ==
  /\ c.next <= MaxTokens + 1
  /\ tokens' = c.store
  /\ nextId' = c.next
  /\ last' = [last EXCEPT ![r] = CallRecord(c, by)]
  /\ response' = [response EXCEPT ![r].cookies = SetCookies(@, c.set_cookies)]
  /\ pc' = [pc EXCEPT ![r] = to]
  /\ UNCHANGED <<cookies, accept, view, guard, invoked, asked, err>>

\* prepare of the logout request: update_session(), line 32.
RaceLogoutPrepare ==
  /\ pc["logout"] = "START"
  /\ RaceCall("logout", update_session(cookies, FALSE, EmptyDict, tokens, nextId),
              "prepare", "HANDLER_RUNNING")

\* The handler of the logout request: delete_session().
RaceDelete ==
  /\ pc["logout"] = "HANDLER_RUNNING"
  /\ RaceCall("logout", delete_session(cookies, tokens, nextId),
              "handler", "DONE")

\* The other request: update_session(new_saved=...) with no extra data.
RaceRenew ==
  /\ pc["renew"] = "START"
  /\ \E new_saved \in BOOLEAN :
       RaceCall("renew", update_session(cookies, new_saved, EmptyDict, tokens, nextId),
                "prepare", "DONE")

NextRace ==
  \/ RaceLogoutPrepare
  \/ RaceDelete
  \/ RaceRenew

SpecRace == InitRace /\ [][NextRace]_vars

\* ------------------------------------------------------------------ claims

\* A step in which update_session or delete_session ran: prepare's call, or
\* one made by the handler (a call that repeats the latest one with the same
\* answers changes nothing and is no step).
SessionCallStep == last' # last /\ last'.op # "none"

\* The Token Store calls of the latest session call, by operation.
LastOps(op) == {i \in DOMAIN last.store_ops : last.store_ops[i]["op"] = op}

\* Whether the latest update_session resolved an existing session.
LastResolved ==
  \E i \in LastOps("update") : last.store_ops[i]["result"] # EmptyDict

\* The set_cookie calls of the latest session call for the cookie `name`.
LastSet(name) ==
  {i \in DOMAIN last.set_cookies : last.set_cookies[i]["name"] = name}

\* A set_cookie call that clears: empty value, epoch expiry.
IsClearing(c) ==
  c["value"] = "" /\ "expires" \in DOMAIN c /\ c["expires"] = EpochDate

\* C1: a call of update_session on a request without a sid cookie and with
\* no extra data, whatever new_saved and the save cookie are, returns the
\* empty session, calls neither token.update nor token.add and leaves the
\* Token Store as it was.
C1_NoSidNoDataNoWrite ==
  [][(/\ SessionCallStep
      /\ last'.op = "update_session"
      /\ last'.cookies.sid = None
      /\ last'.kwargs = EmptyDict)
     => (/\ last'.ret = EmptyDict
         /\ last'.store_ops = << >>
         /\ tokens' = tokens
         /\ nextId' = nextId)]_vars

C1_Witness ==
  /\ last.op = "update_session"
  /\ last.cookies.sid = None
  /\ last.cookies.save = "1"
  /\ last.new_saved
  /\ last.kwargs = EmptyDict
  /\ last.ret = EmptyDict
  /\ tokens # EmptyDict

\* C2: update_session calls token.add if and only if extra data was given
\* and no existing session was resolved (token.update was not called, as
\* without a sid cookie, or answered empty); it calls it at most once; and
\* when the renewal of the sid succeeds no token is added even with extra
\* data, which is then written onto the renewed token.
C2_AddIffDataAndNoSession ==
  last.op = "update_session" =>
    /\ Cardinality(LastOps("add")) <= 1
    /\ (LastOps("add") # {}) <=> (last.kwargs # EmptyDict /\ ~LastResolved)
    /\ last.cookies.sid = None => ~LastResolved
    /\ LastResolved =>
         /\ last.ret["_id"] = last.cookies.sid
         /\ \A k \in DOMAIN last.kwargs : last.ret[k] = last.kwargs[k]

C2_Witness ==
  /\ last.op = "update_session"
  /\ last.kwargs # EmptyDict
  /\ LastResolved
  /\ LastOps("add") = {}
  /\ last.new_saved

\* The class and TTL every Token Store call of the latest update_session
\* used, and the class its cookies show, are those of `saved`.
LastClassIs(saved) ==
  /\ \A i \in DOMAIN last.store_ops :
       /\ last.store_ops[i]["token_type"] =
            (IF saved THEN TYPE_SAVED_SESSION ELSE TYPE_UNSAVED_SESSION)
       /\ last.store_ops[i]["expire_seconds"] =
            (IF saved THEN saved_session_expire_seconds
                      ELSE unsaved_session_expire_seconds)
  /\ last.ret # EmptyDict =>
       last.ret["token_type"] =
         (IF saved THEN TYPE_SAVED_SESSION ELSE TYPE_UNSAVED_SESSION)

\* C3 as stated: without a sid cookie the class is saved iff new_saved; with
\* a sid cookie it is saved iff the save cookie is present.
C3_Original ==
  last.op = "update_session" =>
    LastClassIs(IF last.cookies.sid = None
                  THEN last.new_saved
                  ELSE last.cookies.save # None)

\* C3, amended: the class update_session renews and creates with is saved
\* iff new_saved when the request has no sid cookie or an empty one, and
\* saved iff the save cookie is present with a non-empty value when the sid
\* cookie is non-empty (new_saved is then ignored, also when the renewal
\* fails and a token is created from extra data); the TTL passed to the
\* Token Store is that class's.
C3_ClassSelection ==
  last.op = "update_session" =>
    LastClassIs(IF Truthy(last.cookies.sid)
                  THEN Truthy(last.cookies.save)
                  ELSE last.new_saved)

\* A sid cookie whose renewal failed, extra data, and a token created of the
\* class of the save cookie, against new_saved.
C3_Witness ==
  /\ last.op = "update_session"
  /\ Truthy(last.cookies.sid)
  /\ last.cookies.save = "1"
  /\ ~last.new_saved
  /\ LastOps("update") # {} /\ ~LastResolved
  /\ LastOps("add") # {}
  /\ last.ret["token_type"] = TYPE_SAVED_SESSION

\* The latest session call made exactly one set_cookie call for `name`, and
\* the response holds it.
LastSetsOnce(name) ==
  /\ Cardinality(LastSet(name)) = 1
  /\ name \in DOMAIN response.cookies
  /\ \A i \in LastSet(name) : response.cookies[name] = last.set_cookies[i]

\* The latest session call cleared the cookie `name`.
LastClears(name) ==
  /\ LastSetsOnce(name)
  /\ \A i \in LastSet(name) : IsClearing(last.set_cookies[i])

\* What update_session writes for the live session it returns: the sid
\* cookie with the session's id; for a saved session the save=1 cookie with
\* expires and max_age; for an unsaved one no save cookie, and a sid cookie
\* without expires and max_age.
LastLiveCookies ==
  /\ LastSetsOnce("sid")
  /\ \A i \in LastSet("sid") : last.set_cookies[i]["value"] = last.ret["_id"]
  /\ IF last.ret["token_type"] = TYPE_SAVED_SESSION
       THEN /\ LastSetsOnce("save")
            /\ \A i \in LastSet("save") :
                 /\ last.set_cookies[i]["value"] = "1"
                 /\ {"expires", "max_age"} \subseteq DOMAIN last.set_cookies[i]
                 /\ last.set_cookies[i]["max_age"] = saved_session_expire_seconds
       ELSE /\ LastSet("save") = {}
            /\ \A i \in LastSet("sid") :
                 {"expires", "max_age"} \cap DOMAIN last.set_cookies[i] = {}

\* C4 as stated: with a live session the sid cookie (and, iff saved, the
\* save cookie) is set; with none, both cookies are cleared.
C4_Original ==
  last.op = "update_session" =>
    IF last.ret # EmptyDict
      THEN LastLiveCookies
      ELSE LastClears("sid") /\ LastClears("save")

\* C4, amended: at the end of an update_session call, a live session has its
\* id in the sid cookie, and the save=1 cookie with expires and max_age is
\* set iff its class is saved (an unsaved one gets a sid cookie without
\* expires and max_age and no save cookie); with no session, each of sid and
\* save that the request carries is cleared by an empty value with epoch
\* expiry, and a cookie the request does not carry is not set at all.
C4_SessionCookies ==
  last.op = "update_session" =>
    IF last.ret # EmptyDict
      THEN LastLiveCookies
      ELSE \A name \in {"sid", "save"} :
             IF last.cookies[name] # None
               THEN LastClears(name)
               ELSE LastSet(name) = {}

\* A live saved session: the response sets sid to its id and save to "1".
C4_Witness ==
  /\ last.op = "update_session"
  /\ last.ret # EmptyDict
  /\ last.ret["token_type"] = TYPE_SAVED_SESSION
  /\ "save" \in DOMAIN response.cookies
  /\ response.cookies["save"]["value"] = "1"
  /\ response.cookies["sid"]["value"] = last.ret["_id"]

\* C5: a session lookup failure falls back to guest and never to an error.
\* When prepare runs on a request whose sid names no token of the store
\* (and, as always in prepare, no extra data), update_session returns the
\* empty session and writes nothing, the only error prepare can end in is
\* that of a missing domain, the user is the guest user and csrf_token is
\* ''.  A session whose uid has no user record gets the guest user too, and
\* the user prepare sets is never null.  (The steps are those in which
\* update_session answered: a Token Store that cannot be reached is no
\* lookup failure.)
C5_GuestFallback ==
  [][(pc = "START" /\ pc' # "START" /\ last'.by = "prepare") =>
       /\ view'["user"] # EmptyDict
       /\ (Truthy(cookies.sid) /\ cookies.sid \notin DOMAIN tokens) =>
            /\ last'.ret = EmptyDict
            /\ tokens' = tokens
            /\ view'["session"] = EmptyDict
            /\ view'["user"] = USER_GUEST
            /\ csrf_token(view'["session"]) = << >>
            /\ \/ pc' = "CONTEXT_BUILT" /\ err'.name = None
               \/ /\ pc' = "RAISED"
                  /\ err'.name = "DomainNotFoundError"
                  /\ view'["domain"] = EmptyDict
       /\ (/\ view'["session"] # EmptyDict
           /\ "uid" \in DOMAIN view'["session"]
           /\ get_by_uid(view'["session"]["uid"]) = EmptyDict) =>
            view'["user"] = USER_GUEST
       /\ view'["session"] = EmptyDict => view'["user"] = USER_GUEST]_vars

C5_Witness ==
  /\ pc = "CONTEXT_BUILT"
  /\ last.by = "prepare"
  /\ Truthy(last.cookies.sid)
  /\ LastOps("update") # {}
  /\ last.ret = EmptyDict
  /\ view["user"] = USER_GUEST
  /\ tokens # EmptyDict

\* The token.delete call delete_session makes: none without a sid, else one
\* for the sid and the class of the save cookie.
LastDeletePair ==
  /\ \A i \in DOMAIN last.store_ops :
       /\ last.store_ops[i]["op"] = "delete"
       /\ last.store_ops[i]["token_id"] = last.cookies.sid
       /\ last.store_ops[i]["token_type"] =
            (IF Truthy(last.cookies.save) THEN TYPE_SAVED_SESSION
                                          ELSE TYPE_UNSAVED_SESSION)
  /\ Len(last.store_ops) = (IF Truthy(last.cookies.sid) THEN 1 ELSE 0)

\* C6 as stated: delete_session always clears both cookies in the response.
C6_Original ==
  last.op = "delete_session" =>
    /\ LastClears("sid") /\ LastClears("save")
    /\ LastDeletePair

\* C6, amended: delete_session clears in the response each of the sid and
\* save cookies that the request carries (and sets no cookie the request
\* does not carry), whatever token.delete answered, also when it found no
\* token; the delete it issues is for the sid and the class inferred from
\* the save cookie (saved iff save is non-empty).
C6_DeleteClearsCookies ==
  last.op = "delete_session" =>
    /\ \A name \in {"sid", "save"} :
         IF last.cookies[name] # None
           THEN LastClears(name)
           ELSE LastSet(name) = {}
    /\ LastDeletePair

\* The delete found no token, and both cookies are cleared.
C6_Witness ==
  /\ last.op = "delete_session"
  /\ Len(last.store_ops) = 1
  /\ last.store_ops[1]["result"] = FALSE
  /\ last.cookies.save = "1"
  /\ IsClearing(response.cookies["sid"])
  /\ IsClearing(response.cookies["save"])

\* The set of the bits of the mask n.
Bits(n) == {i \in 0..(PermBits - 1) : (n \div (2^i)) % 2 = 1}

\* The role of the context's user in its domain, and that role's mask.
ContextRole ==
  IF view["domain_id"] \in DOMAIN view["user"]["roles"]
    THEN view["user"]["roles"][view["domain_id"]]
    ELSE ROLE_DEFAULT

ContextMask ==
  IF ContextRole \in DOMAIN view["domain"]["roles"]
    THEN view["domain"]["roles"][ContextRole]
    ELSE PERM_NONE

ContextOwner == view["user"]["_id"] = view["domain"]["owner_uid"]

\* C7: has_perm(perm) is true iff every bit of perm is in the mask of the
\* user's role in the domain (the default role without a role entry, the
\* no-permission mask for a role the domain does not define) or the user is
\* the domain's owner.
C7_HasPermIff ==
  asked.asked =>
    (asked.answer <=> (Bits(asked.perm) \subseteq Bits(ContextMask) \/ ContextOwner))

\* The owner is granted bits that the role's mask lacks.
C7_Witness ==
  /\ asked.asked
  /\ asked.answer
  /\ ContextOwner
  /\ ~(Bits(asked.perm) \subseteq Bits(ContextMask))

\* C8: require_perm(perm) and require_priv(priv) act before the handler.
\* When has_perm(perm), resp. has_priv(priv) (every bit of priv is in
\* user.priv, whatever the domain and its owner), is false, the call raises
\* PermissionError, resp. PrivilegeError, carrying the bit asked for, and
\* the handler is not invoked; when it is true, the handler is invoked once
\* with the keyword arguments of the call.  The guard writes nothing to the
\* response.
C8_GuardsBeforeHandler ==
  [][(/\ pc = "CONTEXT_BUILT"
      /\ pc' # pc
      /\ guard'.kind \in {"require_perm", "require_priv"})
     => /\ response' = response
        /\ view' = view
        /\ IF (IF guard'.kind = "require_perm"
                 THEN Bits(guard'.bit) \subseteq Bits(ContextMask) \/ ContextOwner
                 ELSE Bits(guard'.bit) \subseteq Bits(view["user"]["priv"]))
             THEN /\ pc' = "HANDLER_RUNNING"
                  /\ err' = NoError
                  /\ invoked' = <<guard'.kwargs>>
             ELSE /\ pc' = "RAISED"
                  /\ invoked' = << >>
                  /\ err'.user_facing
                  /\ err'.name = (IF guard'.kind = "require_perm"
                                    THEN "PermissionError" ELSE "PrivilegeError")
                  /\ err'.args = <<guard'.bit>>]_vars

\* The owner of the domain fails a privilege guard, and the handler did not
\* run.
C8_Witness ==
  /\ pc = "RAISED"
  /\ guard.kind = "require_priv"
  /\ ContextOwner
  /\ err.name = "PrivilegeError"
  /\ err.args = <<guard.bit>>
  /\ guard.kwargs # EmptyDict
  /\ invoked = << >>

\* C9: the expected CSRF token is empty exactly when the context has no
\* session, and is otherwise the same for every session with the same id.
\* A handler under require_csrf_token is invoked (once) iff the expected
\* token is empty or the csrf_token argument equals it; with a non-empty
\* expected token and a missing or different argument CsrfTokenError is
\* raised and the handler is not invoked.  Without a session every supplied
\* value passes.
C9_CsrfGuard ==
  "session" \in DOMAIN view =>
    /\ (csrf_token(view["session"]) = << >>) <=> (view["session"] = EmptyDict)
    /\ \A s \in GuardSessions :
         (/\ s # EmptyDict
          /\ view["session"] # EmptyDict
          /\ s["_id"] = view["session"]["_id"])
         => csrf_token(s) = csrf_token(view["session"])
    /\ guard.kind = "require_csrf_token" =>
         IF \/ view["session"] = EmptyDict
            \/ /\ "csrf_token" \in DOMAIN guard.kwargs
               /\ guard.kwargs["csrf_token"] = csrf_token(view["session"])
           THEN /\ err = NoError
                /\ Len(invoked) = 1
                /\ pc = "HANDLER_RUNNING"
           ELSE /\ err.name = "CsrfTokenError"
                /\ invoked = << >>
                /\ pc = "RAISED"

\* A request in a session that supplies no token is refused.
C9_Witness ==
  /\ guard.kind = "require_csrf_token"
  /\ view["session"] # EmptyDict
  /\ "csrf_token" \notin DOMAIN guard.kwargs
  /\ err.name = "CsrfTokenError"
  /\ invoked = << >>

\* C10: when View.__iter__ has translated a user-facing error raised by
\* prepare, by a guard or by the handler, the response's status is the
\* error's http_status; if the client prefers JSON its content type is
\* application/json and its body the JSON encoding of {error: to_dict()},
\* and otherwise its body is the error's template rendered as HTML with the
\* error in the template context.
C10_ErrorTranslation ==
  pc = "ERROR_TRANSLATED" =>
    /\ err.user_facing
    /\ response.status = err.http_status
    /\ accept \in AcceptHeaders
    /\ accept = <<"application/json">> => response.content_type = "application/json"
    /\ accept \in {<< >>, <<"text/html">>} => response.content_type = "text/html"
    /\ IF prefer_json(accept)
         THEN /\ response.content_type = "application/json"
              /\ response.text =
                   [format |-> "json",
                    value |-> [error |-> [name |-> err.name, args |-> err.args]]]
         ELSE /\ response.content_type = "text/html"
              /\ response.text["format"] = "html"
              /\ response.text["template_name"] = err.template_name
              /\ response.text["context"]["error"] = err

\* A request in a live unsaved session that accepts JSON and lacks the
\* permission its handler requires.
C10_Witness ==
  /\ pc = "ERROR_TRANSLATED"
  /\ err.name = "PermissionError"
  /\ accept = <<"application/json">>
  /\ view["session"] # EmptyDict
  /\ view["session"]["token_type"] = TYPE_UNSAVED_SESSION
  /\ response.status = <<"http_status", "PermissionError">>
  /\ response.text["value"]["error"]["name"] = "PermissionError"

\* C11: OperationView.post dispatch.  For a form whose operation field names
\* an existing post_<operation> method, that method, and no other, is
\* invoked exactly once with the remaining form fields (the operation field
\* removed) as keyword arguments, and nothing is raised; for a form whose
\* operation field names no such method, InvalidOperationError(operation) is
\* raised and no method is invoked.
C11_PostDispatch ==
  (guard.kind = "post" /\ "operation" \in DOMAIN guard.kwargs) =>
    IF <<"post_", guard.kwargs["operation"]>> \in PostMethods
      THEN /\ err = NoError
           /\ Len(invoked) = 1
           /\ invoked[1]["method"] = <<"post_", guard.kwargs["operation"]>>
           /\ DOMAIN invoked[1]["kwargs"] = (DOMAIN guard.kwargs) \ {"operation"}
           /\ \A k \in DOMAIN invoked[1]["kwargs"] :
                invoked[1]["kwargs"][k] = guard.kwargs[k]
           /\ pc # "RAISED"
      ELSE /\ err.name = "InvalidOperationError"
           /\ err.args = <<guard.kwargs["operation"]>>
           /\ err.user_facing
           /\ invoked = << >>
           /\ pc \in {"RAISED", "ERROR_TRANSLATED"}

\* A form with the operation and another field reached its method, which got
\* the other field only.
C11_Witness ==
  /\ guard.kind = "post"
  /\ guard.kwargs = [operation |-> "star", pid |-> "p1"]
  /\ invoked = <<[method |-> <<"post_", "star">>, kwargs |-> [pid |-> "p1"]]>>
  /\ err = NoError

\* C12 (as stated): a POST to an OperationView whose form has no operation
\* field fails with InvalidOperationError, a user-facing error, which the
\* View translates into a response: the failure never leaves the View
\* untranslated.
C12_Original ==
  (guard.kind = "post" /\ "operation" \notin DOMAIN guard.kwargs) =>
    /\ err.name = "InvalidOperationError"
    /\ err.user_facing
    /\ pc \in {"RAISED", "ERROR_TRANSLATED"}

\* The form without the operation field made post raise KeyError, which is
\* not user-facing and has left the View untranslated.
C12_Witness ==
  /\ guard.kind = "post"
  /\ "operation" \notin DOMAIN guard.kwargs
  /\ err.name = "KeyError"
  /\ ~err.user_facing
  /\ pc = "PROPAGATED"
  /\ response = NewResponse

\* C13: a request that carries no cookies and whose route names a domain_id
\* with no Domain record.  prepare fails with DomainNotFoundError(domain_id);
\* the handler is not invoked; the View returns the translated error
\* response (the rendered error page when JSON is not preferred); the
\* response sets no cookie at all and no Token Store write has occurred.
\* When the route names no domain_id, the system domain is used.
C13_MissingDomainNoCookies ==
  [][/\ (cookies = NoCookies /\ pc = "START" /\ pc' # "START") =>
          /\ tokens' = tokens
          /\ nextId' = nextId
          /\ last'.store_ops = << >>
          /\ response'.cookies = EmptyDict
          /\ IF view'["domain_id"] \in DOMAIN DomainDB
               THEN /\ pc' = "CONTEXT_BUILT"
                    /\ view'["domain"] = DomainDB[view'["domain_id"]]
               ELSE /\ pc' = "RAISED"
                    /\ err' = UserFacingError("DomainNotFoundError",
                                              <<view'["domain_id"]>>)
     /\ (pc = "RAISED" /\ err.name = "DomainNotFoundError" /\ pc' # pc) =>
          /\ pc' = "ERROR_TRANSLATED"
          /\ invoked' = << >>
          /\ tokens' = tokens
          /\ response'.cookies = response.cookies
          /\ response'.status = err.http_status
          /\ ~prefer_json(accept') =>
               /\ response'.content_type = "text/html"
               /\ response'.text["format"] = "html"
               /\ response'.text["template_name"] = err.template_name
     /\ PrepareDomainId(None) = DOMAIN_ID_SYSTEM
     /\ \A route \in RouteDomainIds \ {None} : PrepareDomainId(route) = route
    ]_vars

\* The request without cookies for the domain "acmoj", which has no record,
\* was answered with the rendered error page and no cookie.
C13_Witness ==
  /\ pc = "ERROR_TRANSLATED"
  /\ cookies = NoCookies
  /\ err = UserFacingError("DomainNotFoundError", <<"acmoj">>)
  /\ accept = <<"text/html">>
  /\ response.cookies = EmptyDict
  /\ response.text["format"] = "html"
  /\ last.store_ops = << >>
  /\ invoked = << >>

\* The entries of a parsed Accept header that decide prefer_json.
Deciders(entries) ==
  {i \in DOMAIN entries : entries[i] \in {"application/json", "text/html", "*/*"}}

\* C14: prefer_json is decided by the first entry, in the order of the
\* parsed Accept header, that is application/json (true) or that is
\* text/html or the all-types wildcard (false); it is false if no entry
\* decides and without an Accept header.  So it is true for
\* application/json alone and false for text/html alone, for */* alone and
\* without the header.
C14_PreferJson ==
  accept # Unread =>
    /\ (response.content_type = "application/json") <=>
         (\E i \in Deciders(accept) :
            /\ accept[i] = "application/json"
            /\ \A j \in Deciders(accept) : i <= j)
    /\ accept = <<"application/json">> => response.content_type = "application/json"
    /\ accept \in {<<"text/html">>, <<"*/*">>, << >>} =>
         response.content_type # "application/json"

\* An entry that does not decide is passed over and JSON, the next, wins
\* over the HTML after it.
C14_Witness ==
  /\ accept = <<"text/plain", "application/json", "text/html">>
  /\ response.content_type = "application/json"
  /\ response.text["format"] = "json"

\* C15: sanitize fails closed.  A handler wrapped in sanitize is invoked
\* (once) only with keyword arguments each of which is the value supplied
\* passed through the conversion function its annotation declares; if a
\* supplied keyword argument has no annotation, an error is raised and the
\* handler is not invoked.
C15_SanitizeFailsClosed ==
  guard.kind = "sanitize" =>
    /\ invoked # << >> =>
         /\ Len(invoked) = 1
         /\ err = NoError
         /\ DOMAIN invoked[1] = {guard.kwargs[i][1] : i \in DOMAIN guard.kwargs}
         /\ \A i \in DOMAIN guard.kwargs :
              LET key == guard.kwargs[i][1]
                  value == guard.kwargs[i][2]
              IN /\ key \in DOMAIN Annotations
                 /\ IF Annotations[key] = "int"
                      THEN /\ value \in {"0", "7"}
                           /\ invoked[1][key] \in Int
                           /\ (value = "7") <=> (invoked[1][key] = 7)
                      ELSE invoked[1][key] = value
    /\ (\E i \in DOMAIN guard.kwargs : guard.kwargs[i][1] \notin DOMAIN Annotations) =>
         /\ err # NoError
         /\ invoked = << >>
         /\ pc = "RAISED"

\* A call whose other argument converts and whose last one has no
\* annotation: KeyError, and the handler did not run.
C15_Witness ==
  /\ guard.kind = "sanitize"
  /\ guard.kwargs = <<<<"uid", "7">>, <<"junk", "x">>>>
  /\ err.name = "KeyError"
  /\ err.args = <<"junk">>
  /\ invoked = << >>

\* C16 (as stated): malformed cookie values are treated as absent.  In
\* update_session and delete_session a save cookie whose value is not the
\* "1" marker selects the class a request without a save cookie gets
\* (unsaved, when the request names a session), and an empty sid is handled
\* like a missing one: the Token Store is not asked about it and the class
\* follows new_saved.
C16_Original ==
  last.op \in {"update_session", "delete_session"} =>
    /\ (Truthy(last.cookies.sid) /\ last.cookies.save # "1") =>
         /\ ~last.save
         /\ \A i \in DOMAIN last.store_ops :
              last.store_ops[i].token_type = TYPE_UNSAVED_SESSION
    /\ last.cookies.sid = "" =>
         /\ LastOps("update") = {}
         /\ LastOps("delete") = {}
         /\ last.op = "update_session" => (last.save <=> last.new_saved)

\* A request with the sid of a live unsaved session and save=0: the renewal
\* was tried in the saved class, missed, and the session came back empty.
C16_Witness ==
  /\ last.op = "update_session"
  /\ last.cookies.save = "0"
  /\ last.cookies.sid \in DOMAIN tokens
  /\ tokens[last.cookies.sid]["token_type"] = TYPE_UNSAVED_SESSION
  /\ LastOps("update") # {}
  /\ \A i \in LastOps("update") :
       last.store_ops[i].token_type = TYPE_SAVED_SESSION
  /\ last.ret = EmptyDict

\* The steps of the lifecycle of a request.
LifecycleSteps ==
  {<<"IDLE", "START">>,
   <<"START", "CONTEXT_BUILT">>, <<"START", "RAISED">>,
   <<"CONTEXT_BUILT", "HANDLER_RUNNING">>, <<"CONTEXT_BUILT", "RAISED">>,
   <<"HANDLER_RUNNING", "RESPONSE_READY">>, <<"HANDLER_RUNNING", "RAISED">>,
   <<"RAISED", "ERROR_TRANSLATED">>, <<"RAISED", "PROPAGATED">>,
   <<"RESPONSE_READY", "IDLE">>, <<"ERROR_TRANSLATED", "IDLE">>,
   <<"PROPAGATED", "IDLE">>}

\* C17: the lifecycle of a request is START -> CONTEXT_BUILT ->
\* HANDLER_RUNNING -> RESPONSE_READY or ERROR_TRANSLATED.  The handler
\* starts only after prepare completed without error; an error of the
\* user-facing taxonomy, and no other, is caught and translated into the
\* response returned; every other failure of prepare or of the handler
\* leaves the View untranslated.  The attributes the translation reads
\* (response, domain_context, locale_context, build_path) are set wherever a
\* user-facing error is raised.
C17_Lifecycle ==
  [][/\ pc' # pc => <<pc, pc'>> \in LifecycleSteps
     /\ (pc' = "HANDLER_RUNNING" /\ pc # "HANDLER_RUNNING") =>
          /\ pc = "CONTEXT_BUILT"
          /\ err = NoError
          /\ err' = NoError
          /\ view["domain"] # EmptyDict
     /\ (pc = "START" /\ pc' = "CONTEXT_BUILT") =>
          /\ err' = NoError
          /\ view'["domain"] # EmptyDict
     /\ (pc' = "RAISED" /\ pc # "RAISED") =>
          /\ err' # NoError
          /\ err'.user_facing =>
               /\ {"domain_context", "locale_context", "build_path"}
                    \subseteq DOMAIN view'
               /\ response' # EmptyDict
     /\ (pc = "RAISED" /\ pc' # "RAISED") =>
          IF err.user_facing
            THEN /\ pc' = "ERROR_TRANSLATED"
                 /\ err' = err
                 /\ response'.status = err.http_status
                 /\ response'.text # EmptyDict
            ELSE /\ pc' = "PROPAGATED"
                 /\ err' = err
                 /\ response' = response
    ]_vars

\* A failure of prepare that is not user-facing has left the View: no
\* context was built and the response is as it was created.
C17_Witness ==
  /\ pc = "PROPAGATED"
  /\ ~err.user_facing
  /\ view = EmptyDict
  /\ response = NewResponse

\* C18: session-class consistency across requests.  For a client whose jar
\* starts empty and changes only by the cookies the responses set and clear,
\* after any sequence of requests that call update_session and
\* delete_session (any new_saved, any extra data, tokens expiring at any
\* time): whenever the jar holds a sid that names a token of the Token
\* Store, the class inferred from the jar's save cookie is the type stored
\* in that token.
C18_JarClassConsistent ==
  (Truthy(cookies.sid) /\ cookies.sid \in DOMAIN tokens) =>
    tokens[cookies.sid]["token_type"] =
      (IF Truthy(cookies.save) THEN TYPE_SAVED_SESSION ELSE TYPE_UNSAVED_SESSION)

\* The jar holds the second session of the client, a saved one, the first
\* being gone from the store.
C18_Witness ==
  /\ pc = "IDLE"
  /\ cookies = [sid |-> "s2", save |-> "1"]
  /\ "s2" \in DOMAIN tokens
  /\ tokens["s2"]["token_type"] = TYPE_SAVED_SESSION
  /\ "s1" \notin DOMAIN tokens

\* The handler's delete_session call of a request whose sid names a live
\* token.
LogoutStep ==
  /\ pc = "HANDLER_RUNNING"
  /\ last'.op = "delete_session"
  /\ cookies.sid \in DOMAIN tokens

\* The ids token.add has handed out so far.
IssuedSids == {SidNames[i] : i \in 1..(nextId - 1)}

\* C19 (as stated): after delete_session completes on a request whose sid
\* cookie names a live session token, that token is no longer in the Token
\* Store.
C19_Original ==
  [][LogoutStep => cookies.sid \notin DOMAIN tokens']_vars

\* C19: logout revokes the session.  After delete_session completes on a
\* request whose sid cookie names a live session token of the class
\* inferred from the request's save cookie, that token is no longer in the
\* Token Store; a token that is gone never comes back; and a request whose
\* sid names no token of the store resolves (no extra data) to the empty
\* session and the guest user.
C19_LogoutRevokes ==
  [][/\ (/\ LogoutStep
         /\ tokens[cookies.sid]["token_type"] =
              (IF Truthy(cookies.save) THEN TYPE_SAVED_SESSION
                                       ELSE TYPE_UNSAVED_SESSION))
          => cookies.sid \notin DOMAIN tokens'
     /\ \A s \in IssuedSids : s \notin DOMAIN tokens => s \notin DOMAIN tokens'
     /\ (/\ pc = "START"
         /\ pc' \in {"CONTEXT_BUILT", "RAISED"}
         /\ last'.by = "prepare"
         /\ cookies.sid \notin DOMAIN tokens)
          => /\ last'.ret = EmptyDict
             /\ view'["session"] = EmptyDict
             /\ view'["user"] = USER_GUEST
    ]_vars

\* The session of the request was deleted by its handler, and its token is
\* gone.
C19_Witness ==
  /\ pc = "RESPONSE_READY"
  /\ last.op = "delete_session"
  /\ Len(last.store_ops) = 1
  /\ last.store_ops[1].result = TRUE
  /\ view["session"] # EmptyDict
  /\ cookies.sid \notin DOMAIN tokens

\* Both requests of the race have completed.
RaceDone == pc["logout"] = "DONE" /\ pc["renew"] = "DONE"

\* C20 (as stated): once both requests have completed, the token their sid
\* names is not in the Token Store, and no token was created.
C20_Original ==
  RaceDone => (cookies.sid \notin DOMAIN tokens /\ nextId = 2)

\* C20: renew/destroy race.  A request running delete_session and a request
\* running update_session with no extra data carry the same cookies and
\* are interleaved in any order at their Token Store operations.  Once both
\* have completed, no token of the store matches the (sid, class inferred
\* from save) pair of the cookies; a token that is gone is never put back
\* by the renewal; and neither request creates a token at any step.
C20_RenewDestroyRace ==
  [][/\ (pc'["logout"] = "DONE" /\ pc'["renew"] = "DONE") =>
          ~(/\ cookies.sid \in DOMAIN tokens'
            /\ tokens'[cookies.sid]["token_type"] =
                 (IF Truthy(cookies.save) THEN TYPE_SAVED_SESSION
                                          ELSE TYPE_UNSAVED_SESSION))
     /\ \A s \in Sids : s \notin DOMAIN tokens => s \notin DOMAIN tokens'
     /\ nextId' = nextId
     /\ \A r \in {"logout", "renew"} :
          \A i \in DOMAIN last'[r].store_ops : last'[r].store_ops[i].op # "add"
    ]_vars

\* The logout deleted the token first; the renewal then missed it and left
\* the store empty.
C20_Witness ==
  /\ RaceDone
  /\ Len(last["logout"].store_ops) = 1
  /\ last["logout"].store_ops[1].op = "delete"
  /\ last["logout"].store_ops[1].result = TRUE
  /\ Len(last["renew"].store_ops) = 1
  /\ last["renew"].store_ops[1].op = "update"
  /\ last["renew"].store_ops[1].result = EmptyDict
  /\ tokens = EmptyDict

====
